---- MODULE Spec2Model ----
(***************************************************************************)
(* A model of src/maybe_nan/mod.rs of ndarray-stats: the MaybeNan trait    *)
(* and its implementations for floats and for Option<T>, the in-place      *)
(* two-index partition remove_nan_mut, the NotNone wrapper, and            *)
(* MaybeNanExt::fold_skipnan.                                              *)
(*                                                                         *)
(* Indices i and j are 0-based usize values as in the Rust code; the       *)
(* element at index k of a view v is v[k + 1] (operator At).               *)
(***************************************************************************)
EXTENDS Integers, Sequences, FiniteSets, TLC

(***************************************************************************)
(* Bounds of the model.                                                    *)
(***************************************************************************)
\* longest array view drawn as an input
MaxLen == 4
\* Option<integer> payloads are drawn from 0..MaxVal
MaxVal == 1
\* the caller's initial accumulator of a fold is drawn from 0..MaxInit
MaxInit == 1
\* width of usize in the model (wrapping arithmetic of a release build)
UsizeBits == 4

(***************************************************************************)
(* Values.  Rust's Option<T> is a sequence of length at most one.          *)
(***************************************************************************)
None == << >>
Some(x) == << x >>
is_none(o) == o = None

\* An f32 is its three bit fields: 1 sign bit, 8 exponent bits, 23 mantissa
\* bits.  An f64 has 11 exponent bits and 52 mantissa bits, the mantissa
\* kept as its high and low 26 bits.
F32(s, e, m) == [sign |-> s, exp |-> e, man |-> m]
F64(s, e, h, l) == [sign |-> s, exp |-> e, manhi |-> h, manlo |-> l]

\* ::std::f32::NAN and ::std::f64::NAN, the canonical quiet NaN
F32_NAN == F32(0, 2^8 - 1, 2^22)
F64_NAN == F64(0, 2^11 - 1, 2^25, 0)

\* 3.0f32, 5.0f32 and a NaN with the sign bit set and another payload
F32_THREE == F32(0, 128, 2^22)
F32_FIVE == F32(0, 129, 2^21)
F32_NEG_NAN == F32(1, 2^8 - 1, 1)

\* The f32 values the conversions are tried on: zeros, a subnormal, normal
\* numbers, the largest finite value, infinities and several NaNs.
F32Vals ==
  { F32(0, 0, 0), F32(1, 0, 0), F32(0, 0, 1), F32(0, 127, 0), F32(1, 127, 0),
    F32_THREE, F32_FIVE, F32(0, 254, 2^23 - 1),
    F32(0, 2^8 - 1, 0), F32(1, 2^8 - 1, 0),
    F32_NAN, F32_NEG_NAN, F32(0, 2^8 - 1, 2^23 - 1), F32(1, 2^8 - 1, 2^22) }

F64Vals ==
  { F64(0, 0, 0, 0), F64(1, 0, 0, 0), F64(0, 0, 0, 1), F64(0, 1023, 0, 0),
    F64(1, 1023, 2^25, 0), F64(0, 2046, 2^26 - 1, 2^26 - 1),
    F64(0, 2^11 - 1, 0, 0), F64(1, 2^11 - 1, 0, 0),
    F64_NAN, F64(1, 2^11 - 1, 0, 1), F64(0, 2^11 - 1, 2^25, 1),
    F64(1, 2^11 - 1, 2^26 - 1, 2^26 - 1) }

\* noisy_float's N32 / N64: a thin repr(C) wrapper around the float
Nxx(f) == [raw |-> f]

\* pub struct NotNone<T>(Option<T>)
NotNone(o) == [inner |-> o]

\* the element types with a MaybeNan implementation that the model covers
FloatTys == {"f32", "f64"}
OptTys == {"opt_int", "opt_n32"}
AllTys == FloatTys \cup OptTys

\* The values of each type.  Option<N32> holds only valid (non-NaN) N32s.
Values(ty) ==
  CASE ty = "f32" -> F32Vals
    [] ty = "f64" -> F64Vals
    [] ty = "opt_int" -> {None} \cup {Some(n) : n \in 0..MaxVal}
    [] ty = "opt_n32" -> {None} \cup {Some(Nxx(F32_THREE)), Some(Nxx(F32(1, 0, 0)))}

(***************************************************************************)
(* impl MaybeNan for $fxx and impl MaybeNan for Option<$ty>                *)
(***************************************************************************)
\* $fxx::is_nan of the standard library: all exponent bits set and a
\* non-zero mantissa
float_is_nan(ty, v) ==
  IF ty = "f32"
    THEN v.exp = 2^8 - 1 /\ v.man # 0
    ELSE v.exp = 2^11 - 1 /\ (v.manhi # 0 \/ v.manlo # 0)

is_nan(ty, v) ==
  IF ty \in FloatTys THEN float_is_nan(ty, v) ELSE is_none(v)

\* Some(&*(self as *const _ as *const NotNan)): the same storage read as
\* the wrapper type
try_as_not_nan(ty, v) ==
  IF ty \in FloatTys
    THEN IF is_nan(ty, v) THEN None ELSE Some(Nxx(v))
    ELSE IF is_none(v) THEN None ELSE Some(NotNone(v))

\* NotNone::into_inner
into_inner(w) == w.inner

\* from_not_nan that gives back a value equal under ==, not the same bits
from_not_nan_abs(ty, w) ==
  IF ty \in FloatTys THEN [w.raw EXCEPT !.sign = 0] ELSE into_inner(w)

from_not_nan(ty, w) ==
  IF ty \in FloatTys THEN w.raw ELSE into_inner(w)

from_not_nan_opt(ty, ow) ==
  IF ty \in FloatTys
    THEN IF ow = None THEN (IF ty = "f32" THEN F32_NAN ELSE F64_NAN)
                      ELSE ow[1].raw
    ELSE IF ow = None THEN None ELSE into_inner(ow[1])

\* the maybe-NaN storage a not-NaN value occupies (what a pointer cast back
\* to the maybe-NaN type reads)
StorageOf(ty, w) == IF ty \in FloatTys THEN w.raw ELSE w.inner

(***************************************************************************)
(* The state.                                                              *)
(***************************************************************************)
VARIABLES
  call,       \* the entry point being run
  ty,         \* the element type A: MaybeNan of the call
  pc,         \* the program point
  view,       \* the contents of the storage behind the (mutable) view
  input,      \* the contents of the view when the current run was entered
  i, j,       \* the two usize indices of remove_nan_mut
  swaps,      \* how many times view.swap was called in the current run
  failed,     \* "none", or the panic that ended the run
  wrapped,    \* TRUE once a usize subtraction wrapped (release build)
  result,     \* the view remove_nan_mut returned
  run,        \* 1: the first partition, 2: the partition of the owned copy
  first,      \* the view the first run returned (kept by the test)
  typed,      \* the returned view re-typed as ArrayViewMut1<NotNan>
  unwrapped,  \* what NotNone::unwrap returned
  ub,         \* TRUE once unreachable_unchecked() was reached
  init,       \* the caller's initial accumulator of fold_skipnan
  acc,        \* the accumulator of the fold
  pos,        \* how many elements the fold has visited
  fcalls,     \* the arguments the caller's f was called with, in order
  val,        \* the value the conversions are applied to
  nanflag,    \* what is_nan returned
  notnan,     \* what try_as_not_nan returned
  back        \* what from_not_nan / from_not_nan_opt returned

vars ==
  << call, ty, pc, view, input, i, j, swaps, failed, wrapped, result, run,
     first, typed, unwrapped, ub, init, acc, pos, fcalls, val, nanflag,
     notnan, back >>

partVars == << view, input, i, j, swaps, failed, wrapped, result, run, first >>
typedVars == << typed, unwrapped, ub >>
foldVars == << init, acc, pos, fcalls >>
convVars == << val, nanflag, notnan, back >>

(***************************************************************************)
(* Array views.                                                            *)
(***************************************************************************)
\* the element types arrays are drawn over
ArrayTys == {"f32", "opt_int"}

\* the elements arrays are drawn from: two different NaNs and two numbers,
\* or None and the Some(n)
ArrayElems(t) ==
  IF t = "f32" THEN {F32_NAN, F32_NEG_NAN, F32_THREE, F32_FIVE} ELSE Values(t)

Views(t) == UNION { [1..n -> ArrayElems(t)] : n \in 0..MaxLen }

\* view[k] for a 0-based index k; Rust panics unless InBounds(v, k)
At(v, k) == v[k + 1]
InBounds(v, k) == k < Len(v)

\* ArrayViewMut1::swap
swap(v, a, b) == [v EXCEPT ![a + 1] = v[b + 1], ![b + 1] = v[a + 1]]

\* view.slice_move(s![..n])
slice_move(v, n) == SubSeq(v, 1, n)

\* usize arithmetic: a debug build panics on overflow, a release build wraps
Builds == {"debug", "release"}
wrapping_sub(a, b) == (a - b + 2^UsizeBits) % (2^UsizeBits)

(***************************************************************************)
(* fn remove_nan_mut<A: MaybeNan>(mut view: ArrayViewMut1<A>)              *)
(***************************************************************************)
\* `view.len() == 0`
IsEmpty(v) == Len(v) = 0

\* the left operands of the two inner loops' conditions and the test of
\* the if
\* the first inner loop stopping one element early
While1Guard_lt(a, b) == a < b
While1Guard(a, b) == a <= b
\* the second inner loop allowed to step past i
While2Guard_ge(a, b) == b >= a
While2Guard(a, b) == b > a
\* the return taken only once the indices have crossed
ReturnCond_gt(a, b) == a > b
ReturnCond(a, b) == a >= b

\* `i += 1` of the first inner loop
\* the first inner loop without its increment
Advance_stuck(a) == a
Advance(a) == a + 1

\* the bound of the slice returned at `i >= j`
\* the slice cut at j, and the slice cut inclusively at i
ReturnBound_j(a, b) == b
ReturnBound_incl(a, b) == a + 1
ReturnBound(a, b) == a

\* `j = <a> - 1` followed by a jump to `next`: checked in a debug build,
\* wrapping in a release build
DecJ(a, next) ==
  IF a >= 1
    THEN /\ j' = a - 1
         /\ pc' = next
         /\ UNCHANGED << failed, wrapped >>
    ELSE \E build \in Builds :
           IF build = "debug"
             THEN /\ pc' = "panic"
                  /\ failed' = "attempt to subtract with overflow"
                  /\ UNCHANGED << j, wrapped >>
             ELSE /\ j' = wrapping_sub(a, 1)
                  /\ pc' = next
                  /\ wrapped' = TRUE
                  /\ UNCHANGED failed

OutOfBounds ==
  /\ pc' = "panic"
  /\ failed' = "index out of bounds"

\* lines 46-50: the empty view returns at once, otherwise i and j are set
Entry ==
  /\ call = "remove_nan_mut"
  /\ pc = "entry"
  /\ IF IsEmpty(view)
       THEN /\ result' = slice_move(view, 0)
            /\ pc' = "ret"
            /\ UNCHANGED << i, j, failed, wrapped >>
       ELSE /\ i' = 0
            /\ DecJ(Len(view), "head")
            /\ UNCHANGED result
  /\ UNCHANGED << call, ty, view, input, swaps, run, first >>
  /\ UNCHANGED << typedVars, foldVars, convVars >>

\* lines 54-56: `while i <= j && !view[i].is_nan() { i += 1; }`
While1 ==
  /\ call = "remove_nan_mut"
  /\ pc \in {"head", "while1"}
  /\ IF While1Guard(i, j)
       THEN IF InBounds(view, i)
              THEN IF ~is_nan(ty, At(view, i))
                     THEN i' = Advance(i) /\ pc' = "while1" /\ UNCHANGED failed
                     ELSE i' = i /\ pc' = "at57" /\ UNCHANGED failed
              ELSE OutOfBounds /\ UNCHANGED i
       ELSE i' = i /\ pc' = "at57" /\ UNCHANGED failed
  /\ UNCHANGED << call, ty, view, input, j, swaps, wrapped, result, run, first >>
  /\ UNCHANGED << typedVars, foldVars, convVars >>

\* lines 58-60: `while j > i && view[j].is_nan() { j -= 1; }`
While2 ==
  /\ call = "remove_nan_mut"
  /\ pc \in {"at57", "while2"}
  /\ IF While2Guard(i, j)
       THEN IF InBounds(view, j)
              THEN IF is_nan(ty, At(view, j))
                     THEN DecJ(j, "while2")
                     ELSE pc' = "at61" /\ UNCHANGED << j, failed, wrapped >>
              ELSE OutOfBounds /\ UNCHANGED << j, wrapped >>
       ELSE pc' = "at61" /\ UNCHANGED << j, failed, wrapped >>
  /\ UNCHANGED << call, ty, view, input, i, swaps, result, run, first >>
  /\ UNCHANGED << typedVars, foldVars, convVars >>

\* lines 62-63: `if i >= j { return view.slice_move(s![..i]); }`
Return ==
  /\ call = "remove_nan_mut"
  /\ pc = "at61"
  /\ ReturnCond(i, j)
  /\ IF ReturnBound(i, j) <= Len(view)
       THEN /\ result' = slice_move(view, ReturnBound(i, j))
            /\ pc' = "ret"
            /\ UNCHANGED failed
       ELSE OutOfBounds /\ UNCHANGED result
  /\ UNCHANGED << call, ty, view, input, i, j, swaps, wrapped, run, first >>
  /\ UNCHANGED << typedVars, foldVars, convVars >>

\* lines 64-68: `else { view.swap(i, j); i += 1; j -= 1; }`
\* (i < view.len() wherever it is incremented, so `i += 1` cannot overflow)
Swap ==
  /\ call = "remove_nan_mut"
  /\ pc = "at61"
  /\ ~ReturnCond(i, j)
  /\ IF InBounds(view, i) /\ InBounds(view, j)
       THEN /\ view' = swap(view, i, j)
            /\ swaps' = swaps + 1
            /\ i' = i + 1
            /\ DecJ(j, "head")
       ELSE OutOfBounds /\ UNCHANGED << view, swaps, i, j, wrapped >>
  /\ UNCHANGED << call, ty, input, result, run, first >>
  /\ UNCHANGED << typedVars, foldVars, convVars >>

\* tests::remove_nan_mut_idempotent: the returned view is copied into fresh
\* owned storage (`removed.to_owned().view_mut()`) and partitioned again
Rerun ==
  /\ call = "remove_nan_mut"
  /\ pc = "ret"
  /\ run = 1
  /\ first' = result
  /\ view' = result
  /\ input' = result
  /\ run' = 2
  /\ pc' = "entry"
  /\ i' = 0 /\ j' = 0 /\ swaps' = 0
  /\ result' = << >>
  /\ UNCHANGED << call, ty, failed, wrapped >>
  /\ UNCHANGED << typedVars, foldVars, convVars >>

(***************************************************************************)
(* MaybeNan::remove_nan_mut of the implementations, and NotNone::unwrap    *)
(***************************************************************************)
\* `not_nan.as_ptr() as *mut NotNan`: each element's storage read as the
\* wrapper type, with no check
Reinterpret(t, v) == IF t \in FloatTys THEN Nxx(v) ELSE NotNone(v)

\* ArrayViewMut1::from_shape_ptr(not_nan.dim(), not_nan.as_ptr() as *mut _)
Retype ==
  /\ call = "remove_nan_mut"
  /\ pc = "ret"
  /\ typed' = [k \in 1..Len(result) |-> Reinterpret(ty, result[k])]
  /\ pc' = "typed"
  /\ UNCHANGED << call, ty, unwrapped, ub >>
  /\ UNCHANGED << partVars, foldVars, convVars >>

\* what a build may produce once unreachable_unchecked() is reached
Garbage(t) == Values(t)

\* NotNone::unwrap on an element of the re-typed view
Unwrap ==
  /\ call = "remove_nan_mut"
  /\ pc = "typed"
  /\ ty \in OptTys
  /\ \E k \in 1..Len(typed) :
       IF typed[k].inner # None
         THEN unwrapped' = Some(typed[k].inner[1]) /\ UNCHANGED ub
         ELSE unwrapped' \in Garbage(ty) /\ ub' = TRUE
  /\ pc' = "unwrapped"
  /\ UNCHANGED << call, ty, typed >>
  /\ UNCHANGED << partVars, foldVars, convVars >>

(***************************************************************************)
(* MaybeNanExt::fold_skipnan                                               *)
(***************************************************************************)
\* the number a finite f32 with a small integral value stands for
F32Num(v) == ((2^23 + v.man) * 2^(v.exp - 127)) \div 2^23

\* the number behind a not-NaN reference: N32::raw, or NotNone::unwrap
NumOf(t, w) == IF t \in FloatTys THEN F32Num(w.raw) ELSE w.inner[1]

\* the caller's combining function f: a sum, which also records its call
f(t, st, w) ==
  [acc |-> st.acc + NumOf(t, w), calls |-> Append(st.calls, w)]

\* lines 240-246: the closure fold_skipnan hands to ArrayBase::fold
\* the closure starting afresh, instead of passing acc on, at a NaN
closure_reset(t, st, elem) ==
  IF try_as_not_nan(t, elem) # None
    THEN f(t, st, try_as_not_nan(t, elem)[1])
    ELSE [acc |-> 0, calls |-> st.calls]

closure(t, st, elem) ==
  IF try_as_not_nan(t, elem) # None
    THEN f(t, st, try_as_not_nan(t, elem)[1])
    ELSE st

\* one element of self.fold(init, closure), in the array's iteration order
FoldStep ==
  /\ call = "fold_skipnan"
  /\ pc = "fold"
  /\ pos < Len(view)
  /\ LET st == closure(ty, [acc |-> acc, calls |-> fcalls], At(view, pos))
     IN  acc' = st.acc /\ fcalls' = st.calls
  /\ pos' = pos + 1
  /\ UNCHANGED << call, ty, pc, init >>
  /\ UNCHANGED << partVars, typedVars, convVars >>

\* the fold has visited every element and returns the accumulator
FoldReturn ==
  /\ call = "fold_skipnan"
  /\ pc = "fold"
  /\ pos = Len(view)
  /\ pc' = "folded"
  /\ UNCHANGED << call, ty >>
  /\ UNCHANGED << partVars, typedVars, foldVars, convVars >>

(***************************************************************************)
(* The conversions of the MaybeNan trait, applied to one value             *)
(***************************************************************************)
CallIsNan ==
  /\ call = "convert"
  /\ pc = "is_nan"
  /\ nanflag' = is_nan(ty, val)
  /\ pc' = "try_as_not_nan"
  /\ UNCHANGED << call, ty, val, notnan, back >>
  /\ UNCHANGED << partVars, typedVars, foldVars >>

CallTryAsNotNan ==
  /\ call = "convert"
  /\ pc = "try_as_not_nan"
  /\ notnan' = try_as_not_nan(ty, val)
  /\ pc' = "from_not_nan"
  /\ UNCHANGED << call, ty, val, nanflag, back >>
  /\ UNCHANGED << partVars, typedVars, foldVars >>

\* from_not_nan takes a NotNan, so it is called only on a Some
CallFromNotNan ==
  /\ call = "convert"
  /\ pc = "from_not_nan"
  /\ notnan # None
  /\ back' = Some(from_not_nan(ty, notnan[1]))
  /\ pc' = "converted"
  /\ UNCHANGED << call, ty, val, nanflag, notnan >>
  /\ UNCHANGED << partVars, typedVars, foldVars >>

CallFromNotNanOpt ==
  /\ call = "convert"
  /\ pc = "from_not_nan"
  /\ back' = Some(from_not_nan_opt(ty, notnan))
  /\ pc' = "converted_opt"
  /\ UNCHANGED << call, ty, val, nanflag, notnan >>
  /\ UNCHANGED << partVars, typedVars, foldVars >>

(***************************************************************************)
(* The specification                                                       *)
(***************************************************************************)
Init ==
  /\ call \in {"remove_nan_mut", "fold_skipnan", "convert"}
  /\ ty \in (IF call = "convert" THEN AllTys ELSE ArrayTys)
  /\ pc = (CASE call = "remove_nan_mut" -> "entry"
             [] call = "fold_skipnan" -> "fold"
             [] call = "convert" -> "is_nan")
  /\ view \in (IF call = "convert" THEN {<< >>} ELSE Views(ty))
  /\ input = view
  /\ i = 0 /\ j = 0 /\ swaps = 0
  /\ failed = "none" /\ wrapped = FALSE
  /\ result = << >> /\ run = 1 /\ first = << >>
  /\ typed = << >> /\ unwrapped = None /\ ub = FALSE
  /\ init \in (IF call = "fold_skipnan" THEN 0..MaxInit ELSE {0})
  /\ acc = init /\ pos = 0 /\ fcalls = << >>
  /\ val \in (IF call = "convert" THEN Values(ty) ELSE {None})
  /\ nanflag = FALSE /\ notnan = None /\ back = None

Next ==
  \/ Entry
  \/ While1
  \/ While2
  \/ Return
  \/ Swap
  \/ Rerun
  \/ Retype
  \/ Unwrap
  \/ FoldStep
  \/ FoldReturn
  \/ CallIsNan
  \/ CallTryAsNotNan
  \/ CallFromNotNan
  \/ CallFromNotNanOpt

Spec == Init /\ [][Next]_vars

\* remove_nan_mut is straight-line sequential code: a step that can be taken
\* is taken
FairSpec == Spec /\ WF_vars(Next)

(***************************************************************************)
(* Properties                                                              *)
(***************************************************************************)
\* the elements of s that are not NaN, in order
NonNan(t, s) == SelectSeq(s, LAMBDA e : ~is_nan(t, e))

\* how many times e occurs in s
Count(s, e) == Cardinality({k \in 1..Len(s) : s[k] = e})

\* remove_nan_mut has returned (and its result may since have been re-typed)
Returned == call = "remove_nan_mut" /\ pc \in {"ret", "typed", "unwrapped"}

\* a value of the NotNan type that respects the type's guarantee
ValidNotNan(t, w) ==
  IF t \in FloatTys THEN ~float_is_nan(t, w.raw) ELSE w.inner # None

RECURSIVE SumNums(_, _)
SumNums(t, ws) == IF ws = << >> THEN 0 ELSE NumOf(t, Head(ws)) + SumNums(t, Tail(ws))

\* C1: the view remove_nan_mut returns holds, as a multiset, exactly the
\* non-NaN elements of the input view: every value occurs in it as often as
\* it occurs in the input if it is not NaN and never if it is NaN, so its
\* length is the number of non-NaN elements of the input.
C1_KeepsExactlyNonNan ==
  Returned =>
    /\ \A e \in ArrayElems(ty) :
         Count(result, e) = (IF is_nan(ty, e) THEN 0 ELSE Count(input, e))
    /\ Len(result) = Len(NonNan(ty, input))

C1_Witness ==
  /\ Returned /\ run = 1 /\ swaps > 0
  /\ Len(input) = 4 /\ Len(result) = 2 /\ result[1] # result[2]

C3_Idempotent ==
  (Returned /\ run = 2) => (result = first /\ swaps = 0 /\ view = first)

C3_Witness ==
  /\ Returned /\ run = 2 /\ pc = "ret"
  /\ Len(first) >= 2 /\ first[1] # first[2] /\ result = first

\* C4: every run of remove_nan_mut, from its entry, reaches its return.
C4_Terminates ==
  (call = "remove_nan_mut" /\ pc = "entry") ~> (pc = "ret")

C4_Witness ==
  /\ call = "remove_nan_mut" /\ pc = "ret" /\ run = 1
  /\ swaps = 2 /\ Len(view) = 4

\* C5: remove_nan_mut never panics and never lets a usize subtraction wrap:
\* every index it reads or swaps is in 0..n-1, j is never decremented at 0,
\* and the bound of the returned slice is at most n.
C5_CannotFail ==
  call = "remove_nan_mut" =>
    /\ failed = "none" /\ ~wrapped /\ pc # "panic"
    /\ pc \in {"head", "while1", "at57", "while2", "at61"} =>
         /\ 0 <= i /\ i <= j + 1
         /\ 0 <= j /\ j <= Len(view) - 1
    /\ pc = "ret" => (i <= Len(view) /\ Len(result) = i)

C5_Witness ==
  /\ call = "remove_nan_mut" /\ pc = "ret" /\ run = 1
  /\ Len(view) >= 2 /\ j = 0 /\ i = 1 /\ swaps = 1

\* C6: fold_skipnan calls f exactly on the non-NaN elements, in iteration
\* order, and returns init combined with them; a NaN element leaves the
\* accumulator as it is.  Summing [NaN, 3.0, NaN, 5.0] from 0 gives 8.
C6_FoldSkipsNan ==
  call = "fold_skipnan" =>
    LET seen == NonNan(ty, SubSeq(view, 1, pos))
    IN  /\ fcalls = [k \in 1..Len(seen) |-> Reinterpret(ty, seen[k])]
        /\ acc = init + SumNums(ty, fcalls)
        /\ pc = "folded" => pos = Len(view)
        /\ (/\ pc = "folded"
            /\ view = << F32_NAN, F32_THREE, F32_NAN, F32_FIVE >>
            /\ init = 0) => acc = 8
        /\ (pc = "folded" /\ NonNan(ty, view) = << >>) => acc = init

C6_Witness ==
  /\ call = "fold_skipnan" /\ pc = "folded" /\ init = 0 /\ acc = 8
  /\ view = << F32_NAN, F32_THREE, F32_NAN, F32_FIVE >>
  /\ fcalls = << Nxx(F32_THREE), Nxx(F32_FIVE) >>

\* C7: for every value exactly one of is_nan and try_as_not_nan = Some(w)
\* holds; the w of a Some occupies the same storage as the value, and
\* from_not_nan gives the value back.
C7_ConversionsAgree ==
  call = "convert" =>
    /\ pc \in {"from_not_nan", "converted", "converted_opt"} =>
         /\ nanflag = (notnan = None)
         /\ notnan # None => StorageOf(ty, notnan[1]) = val
    /\ pc = "converted" => back = Some(val)

C7_Witness ==
  /\ call = "convert" /\ pc = "converted" /\ ty = "f32"
  /\ val = F32(1, 0, 0) /\ ~nanflag /\ back = Some(val)

\* C8: on a view without NaN, remove_nan_mut swaps nothing, leaves the
\* storage as it was and returns the whole view.
C8_NoNanUntouched ==
  (call = "remove_nan_mut" /\ NonNan(ty, input) = input) =>
    /\ swaps = 0
    /\ view = input
    /\ Returned => result = input

C8_Witness ==
  /\ Returned /\ run = 1 /\ NonNan(ty, input) = input
  /\ Len(input) >= 3 /\ input[1] # input[2] /\ result = input

\* C9: at every point of a run, twice the number of swaps is at most the
\* length of the view.
C9_SwapBound ==
  call = "remove_nan_mut" => 2 * swaps <= Len(view)

C9_Witness ==
  /\ call = "remove_nan_mut" /\ pc = "ret" /\ swaps = 2 /\ Len(view) = 4

\* the assertions written in the loop, an element outside the view being
\* neither NaN nor not NaN
HeadAssert ==
  /\ i = 0 \/ (InBounds(view, i - 1) /\ ~is_nan(ty, At(view, i - 1)))
  /\ j = Len(view) - 1 \/ (InBounds(view, j + 1) /\ is_nan(ty, At(view, j + 1)))
At57Assert == i = j + 1 \/ (InBounds(view, i) /\ is_nan(ty, At(view, i)))
At61Assert == j = i \/ (InBounds(view, j) /\ ~is_nan(ty, At(view, j)))

\* C10: every view.swap(i, j) is made with i < j, a NaN at i and a non-NaN
\* at j, and each assertion written in the loop holds whenever its program
\* point is reached.
C10_SwapPrecondition ==
  [][ call = "remove_nan_mut" =>
        /\ swaps' = swaps + 1 =>
             /\ i < j
             /\ InBounds(view, j)
             /\ is_nan(ty, At(view, i))
             /\ ~is_nan(ty, At(view, j))
        /\ pc' = "head" => HeadAssert'
        /\ pc' = "at57" => At57Assert'
        /\ pc' = "at61" => At61Assert' ]_vars

C10_Witness ==
  /\ call = "remove_nan_mut" /\ pc = "head" /\ run = 1 /\ swaps = 2

====
